---- MODULE Spec2Model ----
(***************************************************************************)
(* Model of app.py of iron-llm: one Flask route "/" (GET and POST) that    *)
(* answers a question by retrieval (embedding + Pinecone query), one call  *)
(* of the generative model, an append to the cookie-backed session         *)
(* history, a best-effort row in a Google sheet and a page that shows the  *)
(* history most recent first.                                              *)
(*                                                                         *)
(* A Python string is a sequence of tokens here (an f-string is the        *)
(* concatenation of its pieces), so that "is a suffix of" and "is empty"   *)
(* are properties of the value.  The Flask session is the signed cookie    *)
(* the browser holds: a request works on the copy decoded from the cookie  *)
(* it carried, and the response sets the cookie again when the session was *)
(* modified.  One process lifetime is modelled (the secret key is fixed).  *)
(***************************************************************************)
EXTENDS Naturals, Sequences, FiniteSets, TLC

\* ---- bounds ----
MaxRequests == 2        \* requests sent in one behaviour

\* ---- the environment's values ----
Browsers == {"A", "B"}
Slots == {1, 2}           \* the server handles two requests at a time
Queries == {<<"Qa">>, <<"Qb">>}
Forms == {[has_query |-> TRUE, query |-> q] : q \in Queries}
            \cup {[has_query |-> FALSE, query |-> <<>>]}
Methods == {"GET", "POST"}

\* results["matches"]: each match carries a metadata dict whose keys may be absent
M1 == [has_text |-> TRUE, text |-> "Lock all valves", has_source |-> TRUE, source |-> "doc1"]
M2 == [has_text |-> TRUE, text |-> "Notify supervisor", has_source |-> FALSE, source |-> ""]
M3 == [has_text |-> FALSE, text |-> "", has_source |-> TRUE, source |-> "doc3"]
RetrieveOutcomes ==
    { [kind |-> "embed_error", matches |-> <<>>],
      [kind |-> "index_error", matches |-> <<>>],
      [kind |-> "ok", matches |-> <<>>],
      [kind |-> "ok", matches |-> <<M1, M2>>],
      [kind |-> "ok", matches |-> <<M3>>] }
GenerateOutcomes ==
    { [kind |-> "ok", text |-> <<"answer">>],
      [kind |-> "error", text |-> <<"429 quota exceeded">>] }
LogOutcomes == {"no_creds", "authorize_error", "open_error", "append_error", "ok"}

\* ---- constants of the program ----
NoSession == [has_history |-> FALSE, session_id |-> 0, history |-> <<>>]
None == <<"None">>
ErrorMarker == "[U+26A0 U+FE0F] Error generating response: "

VARIABLES
    cookie,         \* per browser: the session cookie it holds
    req,            \* per slot: the request being handled there
    uuid_count,     \* number of uuid4 values drawn so far
    sent,           \* number of requests sent so far
    submitted,      \* per browser: the queries it has posted
    okPosts         \* per browser: POSTs answered with the rendered page

vars == <<cookie, req, uuid_count, sent, submitted, okPosts>>

NoOutcome == [kind |-> "none", text |-> <<>>]

Idle ==
    [ pc |-> "idle", browser |-> "A", method |-> "GET",
      form |-> [has_query |-> FALSE, query |-> <<>>],
      start |-> NoSession, session |-> NoSession, modified |-> FALSE,
      query |-> <<>>, context |-> <<>>, response |-> None,
      retrieved |-> "none", generated |-> NoOutcome, log_outcome |-> "none",
      prompts |-> <<>>, logged |-> <<>>, trace |-> <<>>,
      status |-> 0, rendered |-> <<>>, set_cookie |-> FALSE ]

\* ---- pure helpers ----
reversed(s) == [i \in 1..Len(s) |-> s[Len(s) + 1 - i]]

RECURSIVE join(_, _)
join(sep, pieces) ==
    IF pieces = <<>> THEN <<>>
    ELSE IF Len(pieces) = 1 THEN pieces[1]
    ELSE pieces[1] \o <<sep>> \o join(sep, Tail(pieces))

\* f"{m['metadata']['text']} (source: {m['metadata'].get('source', 'unknown')})"
context_piece(m) ==
    <<m.text, " (source: ", IF m.has_source THEN m.source ELSE "unknown", ")">>

\* retrieve_context returns "\n\n".join(context_pieces)
retrieve_context(matches) ==
    join("\n\n", [i \in 1..Len(matches) |-> context_piece(matches[i])])

\* as if chat caught the failure of retrieve_context and went on
retrieve_raises_swallowed(o) == FALSE

\* retrieve_context has no try: embedder.encode, index.query and the
\* m['metadata']['text'] lookup raise into chat, which has none around it
retrieve_raises(o) ==
    \/ o.kind # "ok"
    \/ \E i \in 1..Len(o.matches) : ~o.matches[i].has_text

\* the two arguments of the template taken for each other
compose_swapped(context, query) ==
    <<"Use this context to answer the question:\n\n">> \o query
        \o <<"\n\n", "Question: ">> \o context

\* the argument of model.generate_content
compose(context, query) ==
    <<"Use this context to answer the question:\n\n">> \o context
        \o <<"\n\n", "Question: ">> \o query

\* the except branch without str(e)
generate_response_no_detail(o) ==
    IF o.kind = "ok" THEN o.text ELSE <<ErrorMarker>>

\* try: response = result.text / except Exception as e: response = f"...{str(e)}"
generate_response(o) ==
    IF o.kind = "ok" THEN o.text ELSE <<ErrorMarker>> \o o.text

Turn(query, response) == [query |-> query, response |-> response]

\* session["history"] = [turn] in place of the append
append_turn_replace(history, query, response) == <<Turn(query, response)>>

\* session["history"].append({"query": query, "response": response})
append_turn(history, query, response) == Append(history, Turn(query, response))

\* the sessionId the cookie came with, in place of the session's
log_args_stale_session(r) ==
    [session_id |-> r.start.session_id, user_input |-> r.query,
     bot_response |-> r.response]

\* log_to_google_sheet(session["session_id"], query, response)
log_args(r) ==
    [session_id |-> r.session.session_id, user_input |-> r.query,
     bot_response |-> r.response]

\* log_to_google_sheet without its try / except
log_raises_uncaught(o) == o # "ok"

\* the body of log_to_google_sheet is one try / except Exception
log_raises(o) == FALSE

\* history=session["history"], without reversed
render_history_unreversed(history) == history

\* history=reversed(session["history"])
render_history(history) == reversed(history)

\* the pipeline run whatever the method
runs_pipeline_any_method(method) == TRUE

\* if request.method == "POST":
runs_pipeline(method) == method = "POST"

\* one history kept for all browsers
open_session_shared(b) == cookie["A"]

\* flask.session: the session decoded from the cookie of the request's browser
open_session(b) == cookie[b]

\* if "history" not in session: session["history"] = []; session["session_id"] = str(uuid.uuid4())
get_or_create(loaded, n) ==
    IF loaded.has_history THEN loaded
    ELSE [has_history |-> TRUE, session_id |-> n + 1, history |-> <<>>]

FreeSlot(s) == req[s].pc = "idle" /\ \A t \in Slots : t < s => req[t].pc # "idle"

Init ==
    /\ cookie = [b \in Browsers |-> NoSession]
    /\ req = [s \in Slots |-> Idle]
    /\ uuid_count = 0
    /\ sent = 0
    /\ submitted = [b \in Browsers |-> {}]
    /\ okPosts = [b \in Browsers |-> 0]

\* The request arrives: lines 120-126 of chat.  A POST without the form key
\* "query" is answered 400 by request.form["query"].
Begin(s, b, m, f) ==
    /\ FreeSlot(s)
    /\ sent < MaxRequests
    /\ m = "GET" => ~f.has_query
    /\ LET loaded == open_session(b)
           sess == get_or_create(loaded, uuid_count)
           created == ~loaded.has_history
           bad == runs_pipeline(m) /\ ~f.has_query
       IN /\ req' = [req EXCEPT ![s] =
                [Idle EXCEPT !.pc = IF bad THEN "responded"
                                    ELSE IF runs_pipeline(m) THEN "retrieve"
                                    ELSE "render",
                             !.browser = b, !.method = m, !.form = f,
                             !.start = loaded, !.session = sess,
                             !.modified = created,
                             !.query = IF runs_pipeline(m) /\ f.has_query
                                       THEN f.query ELSE <<>>,
                             !.status = IF bad THEN 400 ELSE 0,
                             !.set_cookie = bad /\ created]]
          /\ uuid_count' = IF created THEN uuid_count + 1 ELSE uuid_count
    /\ sent' = sent + 1
    /\ submitted' = IF m = "POST" /\ f.has_query
                    THEN [submitted EXCEPT ![b] = @ \cup {f.query}]
                    ELSE submitted
    /\ UNCHANGED <<cookie, okPosts>>

\* context = retrieve_context(query).  When it raises, the request ends with
\* an error response; whether that response still carries the session cookie
\* of a session created by this request depends on the server's error
\* handling, so both are possible.
Retrieve(s, o, keep) ==
    /\ req[s].pc = "retrieve"
    /\ LET r == req[s]
           kind == IF o.kind # "ok" \/ \E i \in 1..Len(o.matches) : ~o.matches[i].has_text
                   THEN "raised"
                   ELSE IF o.matches = <<>> THEN "zero" ELSE "some"
       IN IF retrieve_raises(o)
          THEN /\ keep => r.modified
               /\ req' = [req EXCEPT ![s] =
                    [r EXCEPT !.pc = "responded", !.retrieved = kind,
                              !.trace = Append(@, "retrieve"),
                              !.status = 500, !.set_cookie = keep]]
          ELSE /\ ~keep
               /\ req' = [req EXCEPT ![s] =
                    [r EXCEPT !.pc = "generate", !.retrieved = kind,
                              !.trace = Append(@, "retrieve"),
                              !.context = retrieve_context(o.matches)]]
    /\ UNCHANGED <<cookie, uuid_count, sent, submitted, okPosts>>

\* the try / except around model.generate_content
Generate(s, o) ==
    /\ req[s].pc = "generate"
    /\ LET r == req[s]
       IN req' = [req EXCEPT ![s] =
                [r EXCEPT !.pc = "append", !.generated = o,
                          !.trace = Append(@, "generate"),
                          !.prompts = Append(@, compose(r.context, r.query)),
                          !.response = generate_response(o)]]
    /\ UNCHANGED <<cookie, uuid_count, sent, submitted, okPosts>>

\* session["history"].append(...); session.modified = True
AppendTurn(s) ==
    /\ req[s].pc = "append"
    /\ LET r == req[s]
       IN req' = [req EXCEPT ![s] =
                [r EXCEPT !.pc = "log",
                          !.trace = Append(@, "append"),
                          !.session.history = append_turn(@, r.query, r.response),
                          !.modified = TRUE]]
    /\ UNCHANGED <<cookie, uuid_count, sent, submitted, okPosts>>

\* log_to_google_sheet(session["session_id"], query, response)
Log(s, o) ==
    /\ req[s].pc = "log"
    /\ LET r == req[s]
           a == log_args(r)
       IN req' = [req EXCEPT ![s] =
                [r EXCEPT !.pc = IF log_raises(o) THEN "responded" ELSE "render",
                          !.status = IF log_raises(o) THEN 500 ELSE 0,
                          !.set_cookie = log_raises(o) /\ r.modified,
                          !.trace = Append(@, "log"),
                          !.logged = Append(@, a),
                          !.log_outcome = IF o = "ok" THEN "ok" ELSE "failed"]]
    /\ UNCHANGED <<cookie, uuid_count, sent, submitted, okPosts>>

\* return render_template_string(...); Flask then saves a modified session
\* into the response's cookie.  The locals of the pipeline end with the
\* return (the record keeps query, response and what was logged).
Render(s) ==
    /\ req[s].pc = "render"
    /\ LET r == req[s]
       IN req' = [req EXCEPT ![s] =
                [r EXCEPT !.pc = "responded",
                          !.trace = Append(@, "render"),
                          !.rendered = render_history(r.session.history),
                          !.context = <<>>, !.prompts = <<>>,
                          !.retrieved = "none",
                          !.status = 200,
                          !.set_cookie = r.modified]]
    /\ UNCHANGED <<cookie, uuid_count, sent, submitted, okPosts>>

\* the browser receives the response and stores the cookie it sets
Receive(s) ==
    /\ req[s].pc = "responded"
    /\ LET r == req[s]
       IN /\ cookie' = IF r.set_cookie
                       THEN [cookie EXCEPT ![r.browser] = r.session]
                       ELSE cookie
          /\ okPosts' = IF r.method = "POST" /\ r.status = 200
                        THEN [okPosts EXCEPT ![r.browser] = @ + 1]
                        ELSE okPosts
    /\ req' = [req EXCEPT ![s] = Idle]
    /\ UNCHANGED <<uuid_count, sent, submitted>>

Next ==
    \/ \E s \in Slots, b \in Browsers, m \in Methods, f \in Forms : Begin(s, b, m, f)
    \/ \E s \in Slots, o \in RetrieveOutcomes, keep \in BOOLEAN : Retrieve(s, o, keep)
    \/ \E s \in Slots, o \in GenerateOutcomes : Generate(s, o)
    \/ \E s \in Slots : AppendTurn(s)
    \/ \E s \in Slots, o \in LogOutcomes : Log(s, o)
    \/ \E s \in Slots : Render(s)
    \/ \E s \in Slots : Receive(s)

Spec == Init /\ [][Next]_vars

\* ---- vocabulary of the properties ----
Active == {s \in Slots : req[s].pc # "idle"}
IsPrefix(a, b) == Len(a) <= Len(b) /\ \A i \in 1..Len(a) : b[i] = a[i]
IsSuffix(a, b) ==
    Len(a) <= Len(b) /\ \A i \in 1..Len(a) : b[Len(b) - Len(a) + i] = a[i]
Last(h) == h[Len(h)]
QueriesOf(h) == {h[i].query : i \in 1..Len(h)}
Appended(r) == \E i \in 1..Len(r.trace) : r.trace[i] = "append"
\* what the request's model call came to, read off the recorded outcome
ExpectedResponse(g) == IF g.kind = "ok" THEN g.text ELSE <<ErrorMarker>> \o g.text
ExpectedTurn(r) == [query |-> r.form.query, response |-> ExpectedResponse(r.generated)]
PipelineOrder == <<"retrieve", "generate", "append", "log", "render">>

\* C1: a POST that reaches the append step leaves the request's session turn
\* list equal to the list the request started from plus exactly one turn
\* {query, response} at the end; before the append, and in every request that
\* does not append, the list is the one the request started from, so no earlier
\* turn is edited, moved or removed.
C1_AppendOnly ==
    \A s \in Active :
        LET r == req[s] IN
        /\ IsPrefix(r.start.history, r.session.history)
        /\ Appended(r) =>
             /\ Len(r.session.history) = Len(r.start.history) + 1
             /\ Last(r.session.history) = [query |-> r.form.query, response |-> r.response]
        /\ ~Appended(r) => r.session.history = r.start.history

C1_Witness ==
    \E s \in Active :
        /\ req[s].pc = "log"
        /\ Len(req[s].start.history) = 1
        /\ Len(req[s].session.history) = 2

\* C2: sessions of different browsers are isolated: every turn stored in a
\* browser's cookie, held by one of its requests or rendered to it carries a
\* query that browser posted, two browsers never hold the same sessionId, a
\* request keeps the sessionId it came with, and a browser's cookie changes
\* only by receiving a response to one of its own requests.
C2_Inv ==
    /\ \A b \in Browsers : QueriesOf(cookie[b].history) \subseteq submitted[b]
    /\ \A s \in Active :
          LET r == req[s] IN
          /\ QueriesOf(r.session.history) \subseteq submitted[r.browser]
          /\ QueriesOf(r.rendered) \subseteq submitted[r.browser]
          /\ r.start.has_history => r.session.session_id = r.start.session_id
    /\ \A a, b \in Browsers :
          a # b /\ cookie[a].has_history /\ cookie[b].has_history
              => cookie[a].session_id # cookie[b].session_id

C2_Step ==
    \A b \in Browsers :
        cookie'[b] # cookie[b] =>
            \E s \in Slots :
                /\ req[s].pc = "responded" /\ req'[s].pc = "idle"
                /\ req[s].browser = b
                /\ cookie'[b] = req[s].session

C2_Isolation == []C2_Inv /\ [][C2_Step]_vars

C2_Witness ==
    /\ Len(cookie["A"].history) = 1
    /\ Len(cookie["B"].history) = 1
    /\ cookie["A"].history # cookie["B"].history

\* C3: when the model call raises, the request goes on: the response is the
\* warning marker followed by the error detail, that turn is appended to the
\* history, the audit logger is called with that response, and the request
\* ends with the rendered page whose first turn it is.
C3_GenerationFailure ==
    \A s \in Active :
        LET r == req[s]
            text == <<ErrorMarker>> \o r.generated.text
        IN r.generated.kind = "error" =>
            /\ r.response = text
            /\ r.pc \in {"append", "log", "render", "responded"}
            /\ r.pc \in {"log", "render", "responded"} =>
                 Last(r.session.history) = [query |-> r.form.query, response |-> text]
            /\ r.pc \in {"render", "responded"} =>
                 /\ Len(r.logged) = 1
                 /\ r.logged[1].bot_response = text
            /\ r.pc = "responded" =>
                 /\ r.status = 200
                 /\ r.rendered # <<>>
                 /\ r.rendered[1] = [query |-> r.form.query, response |-> text]

C3_Witness ==
    \E s \in Active :
        /\ req[s].pc = "responded"
        /\ req[s].generated.kind = "error"
        /\ req[s].status = 200

\* C4: whatever the audit write came to, the request goes on to render, and
\* its outcome (status 200, the transcript, the session saved with the cookie)
\* is the one fixed by the session it started from, the query and the
\* generation outcome alone.
C4_AuditFailureContained ==
    \A s \in Active :
        LET r == req[s]
            turns == Append(r.start.history, ExpectedTurn(r))
        IN r.log_outcome # "none" =>
            /\ r.pc \in {"render", "responded"}
            /\ r.session.history = turns
            /\ r.pc = "render" => r.status = 0
            /\ r.pc = "responded" =>
                 /\ r.status = 200
                 /\ r.set_cookie
                 /\ Len(r.rendered) = Len(turns)
                 /\ \A i \in 1..Len(turns) : r.rendered[i] = turns[Len(turns) + 1 - i]

C4_Witness ==
    \E s \in Active :
        /\ req[s].pc = "responded"
        /\ req[s].log_outcome = "failed"
        /\ req[s].status = 200
        /\ Len(req[s].rendered) = 2

\* C5: a request that ends with the page renders every turn of its session
\* once, in reverse order of appending; a POST renders its own turn first; a
\* GET renders the turn list of the cookie it came with, so the GET that
\* presents the cookie a POST returned renders that POST's turn first.
C5_Inv ==
    \A s \in Active :
        LET r == req[s]
            h == r.session.history
        IN r.pc = "responded" /\ r.status = 200 =>
            /\ Len(r.rendered) = Len(h)
            /\ \A i \in 1..Len(h) : r.rendered[i] = h[Len(h) + 1 - i]
            /\ r.method = "POST" =>
                 r.rendered[1] = [query |-> r.form.query, response |-> r.response]
            /\ r.method = "GET" => h = r.start.history

C5_Step ==
    \A s \in Slots :
        /\ req[s].pc = "idle" /\ req'[s].pc # "idle" =>
              req'[s].start = cookie[req'[s].browser]
        /\ req[s].pc = "responded" /\ req'[s].pc = "idle" /\ req[s].status = 200
              /\ req[s].method = "POST" =>
              cookie'[req[s].browser].history = req[s].session.history

C5_MostRecentFirst == []C5_Inv /\ [][C5_Step]_vars

C5_WitnessNextGet ==
    \E s \in Active :
        /\ req[s].pc = "responded"
        /\ req[s].method = "GET"
        /\ Len(req[s].rendered) = 1
        /\ req[s].rendered[1] = Last(cookie[req[s].browser].history)

C5_Witness ==
    \E s \in Active :
        /\ req[s].pc = "responded"
        /\ Len(req[s].rendered) = 2
        /\ req[s].rendered[1] # req[s].rendered[2]

\* C6: once no request of a browser is in flight, the cookie it holds has as
\* many turns as the POSTs it was answered with the rendered page.
C6_OneTurnPerPost ==
    \A b \in Browsers :
        (\A s \in Active : req[s].browser # b) =>
            Len(cookie[b].history) = okPosts[b]

\* C7: a GET is render-only: no retrieval, generation or audit call, the turn
\* list is the one it came with, an existing session is left as it is, and a
\* request without a session gets an empty turn list and a sessionId no other
\* session has.
C7_GetRenderOnly ==
    \A s \in Active :
        LET r == req[s] IN
        r.method = "GET" =>
            /\ r.pc \in {"render", "responded"}
            /\ r.status = IF r.pc = "responded" THEN 200 ELSE 0
            /\ r.trace = IF r.pc = "responded" THEN <<"render">> ELSE <<>>
            /\ r.retrieved = "none" /\ r.generated = NoOutcome /\ r.log_outcome = "none"
            /\ r.prompts = <<>> /\ r.logged = <<>>
            /\ r.session.history = r.start.history
            /\ r.start.has_history => r.session = r.start /\ ~r.modified
            /\ ~r.start.has_history =>
                 /\ r.session.has_history /\ r.session.history = <<>>
                 /\ r.modified
                 /\ \A b \in Browsers :
                       cookie[b].has_history => cookie[b].session_id # r.session.session_id
                 /\ \A t \in Active \ {s} :
                       req[t].session.session_id # r.session.session_id

C7_Witness ==
    \E s \in Active :
        /\ req[s].method = "GET"
        /\ req[s].pc = "responded"
        /\ Len(req[s].start.history) = 1

C7_WitnessNewSession ==
    \E s \in Active :
        /\ req[s].method = "GET"
        /\ req[s].pc = "responded"
        /\ ~req[s].start.has_history
        /\ \E b \in Browsers : cookie[b].has_history

\* C8: with zero matches the context is the empty string and no error is
\* raised; the model is called exactly once, with a non-empty prompt that ends
\* with "Question: " and the query, and the turn is appended.
C8_ZeroMatches ==
    \A s \in Active :
        LET r == req[s] IN
        r.retrieved = "zero" =>
            /\ r.context = <<>>
            /\ r.status = 0
            /\ r.pc \in {"generate", "append", "log", "render"}
            /\ r.pc = "generate" => r.prompts = <<>>
            /\ r.pc # "generate" =>
                 /\ Len(r.prompts) = 1
                 /\ r.prompts[1] # <<>>
                 /\ IsSuffix(<<"Question: ">> \o r.form.query, r.prompts[1])
                 /\ r.generated.kind # "none"
            /\ r.pc \in {"log", "render"} =>
                 r.session.history = Append(r.start.history, ExpectedTurn(r))

C8_Witness ==
    \E s \in Active :
        /\ req[s].pc = "render"
        /\ req[s].retrieved = "zero"
        /\ Len(req[s].session.history) >= 1

\* C9: when the embedding call or the index query raises, the request ends
\* there with an error: no model call, no turn appended, no audit call, no
\* page, and the cookie of an existing session is not set again.
C9_RetrievalFailure ==
    \A s \in Active :
        LET r == req[s] IN
        r.retrieved = "raised" =>
            /\ r.pc = "responded"
            /\ r.status = 500
            /\ r.trace = <<"retrieve">>
            /\ r.prompts = <<>> /\ r.generated = NoOutcome
            /\ r.logged = <<>> /\ r.log_outcome = "none"
            /\ r.rendered = <<>>
            /\ r.session.history = r.start.history
            /\ r.start.has_history => ~r.set_cookie /\ r.session = r.start

C9_Witness ==
    \E s \in Active :
        /\ req[s].retrieved = "raised"
        /\ req[s].pc = "responded"
        /\ Len(req[s].start.history) = 1

\* C10: a POST runs retrieve, generate, append, log, render in this order,
\* each at most once; the audit logger is called once per appended turn, after
\* the append, with the sessionId of the request's session and the query and
\* response of the turn just appended.
C10_PipelineOrder ==
    \A s \in Active :
        LET r == req[s] IN
        r.method = "POST" =>
            /\ IsPrefix(r.trace, PipelineOrder)
            /\ Len(r.prompts) <= 1
            /\ Len(r.prompts) = 1 => Len(r.trace) >= 2
            /\ Len(r.logged) = (IF Len(r.trace) >= 4 THEN 1 ELSE 0)
            /\ Len(r.session.history) - Len(r.start.history)
                  = (IF Len(r.trace) >= 3 THEN 1 ELSE 0)
            /\ r.logged # <<>> =>
                 /\ r.session.has_history
                 /\ r.logged[1].session_id = r.session.session_id
                 /\ r.logged[1].session_id # 0
                 /\ r.logged[1].user_input = Last(r.session.history).query
                 /\ r.logged[1].bot_response = Last(r.session.history).response
                 /\ r.logged[1].user_input = r.form.query
            /\ r.pc = "responded" /\ r.status = 200 => r.trace = PipelineOrder

C10_Witness ==
    \E s \in Active :
        /\ req[s].method = "POST"
        /\ req[s].pc = "responded"
        /\ req[s].status = 200
        /\ Len(req[s].logged) = 1
        /\ ~req[s].start.has_history

TypeOK ==
    /\ \A b \in Browsers : Len(cookie[b].history) <= MaxRequests
    /\ sent <= MaxRequests
====
